---- MODULE Spec2Model ----
(***************************************************************************)
(* A model of gga-extract (src/src/lib.rs): the GGA classifier is_gga, the *)
(* sentence-length calculator calculate_sentence_length and the position   *)
(* extractor extract_gga, all working on a 1024-byte circular buffer.      *)
(*                                                                         *)
(* Bytes are the integers 0..255.  TLC's integers are 32-bit signed, so a  *)
(* u32 is kept as two 16-bit limbs [hi, lo] (value hi * 2^16 + lo) and     *)
(* every u32 operation reports whether the mathematical result left the    *)
(* u32 range.  Rust's +, -, * panic on overflow when the build has         *)
(* overflow checks (the default of dev/test profiles) and wrap when it has *)
(* not (the default of release profiles): the operators take the build's   *)
(* setting as the parameter `checks`, and the actions draw it.             *)
(***************************************************************************)
EXTENDS Integers, Sequences, FiniteSets

VARIABLES
    buffer,                 \* the circular receive buffer: Cap bytes, index i at buffer[i + 1]
    dest,                   \* where the ingestion path wrote the sentence
    sentence_begin,         \* the sentence cursor handed to the operations
    position_block,         \* the caller's 10-byte record, [0..9 -> 0..255]
    parsed,                 \* extract_gga's outcome: "none", "true", "false", "panic"
    gga,                    \* is_gga's outcome: "none", "true", "false"
    ndtr,                   \* the remaining-transfer counter (u16)
    actual_sentence_length, \* the length the ingestion path actually wrote
    sentence_length         \* calculate_sentence_length's outcome

vars == <<buffer, dest, sentence_begin, position_block, parsed, gga,
          ndtr, actual_sentence_length, sentence_length>>

(***************************************************************************)
(* Program constants.                                                      *)
(***************************************************************************)
Cap == 1024
TIME_FIELD_SKIP == 11
Comma == 44
Dot == 46
Char0 == 48
CharA == 65
CharE == 69
CharG == 71
CharN == 78
U8Max == 255
U16Max == 65535

POW10_10_DIGITS ==
    <<1000000000, 100000000, 10000000, 1000000, 100000, 10000, 1000, 100, 10, 1>>

\* x & 1023
Mask(x) == x % Cap
\* *buffer.get_unchecked(i), buffer[i]: the buffer is a sequence, index 0 first
get_unchecked(buf, i) == buf[i + 1]

(***************************************************************************)
(* Machine arithmetic.  Each operation gives the wrapped value and `ovf`,  *)
(* whether the mathematical result was out of the type's range.            *)
(***************************************************************************)
\* u8 - u8
Sub8(a, b) == [v |-> (a - b) % (U8Max + 1), ovf |-> a < b]
\* u8 + u8
Add8(a, b) == [v |-> (a + b) % (U8Max + 1), ovf |-> a + b > U8Max]
\* u8 * u8
Mul8(a, b) == [v |-> (a * b) % (U8Max + 1), ovf |-> a * b > U8Max]

\* A slip: wrapping for saturating addition.
wrapping_add(a, b) == (a + b) % (U8Max + 1)
\* u8::saturating_add
saturating_add(a, b) == IF a + b > U8Max THEN U8Max ELSE a + b
\* u8::saturating_mul
saturating_mul(a, b) == IF a * b > U8Max THEN U8Max ELSE a * b

\* (d as u32) * p, for a byte d and a table entry p
Mul32(d, p) ==
    LET lo == d * (p % (2^16))
        hi == d * (p \div (2^16)) + lo \div (2^16)
    IN  [hi |-> hi % (2^16), lo |-> lo % (2^16), ovf |-> hi >= 2^16]
\* u32 + u32
Add32(a, b) ==
    LET lo == a.lo + b.lo
        hi == a.hi + b.hi + lo \div (2^16)
    IN  [hi |-> hi % (2^16), lo |-> lo % (2^16), ovf |-> hi >= 2^16]

\* The four bytes (x >> 24) as u8, (x >> 16) as u8, (x >> 8) as u8, x as u8.
BigEndian(x) == <<x.hi \div 256, x.hi % 256, x.lo \div 256, x.lo % 256>>

(***************************************************************************)
(* is_gga                                                                  *)
(***************************************************************************)
\* A slip: the three reads without & 1023, past the end when the prefix wraps.
is_gga_unmasked(buf, sb) ==
    /\ sb + 5 < Cap
    /\ get_unchecked(buf, sb + 3) = CharG
    /\ get_unchecked(buf, sb + 4) = CharG
    /\ get_unchecked(buf, sb + 5) = CharA
\* is_gga(buffer, sentence_begin)
is_gga(buf, sb) ==
    /\ get_unchecked(buf, Mask(sb + 3)) = CharG
    /\ get_unchecked(buf, Mask(sb + 4)) = CharG
    /\ get_unchecked(buf, Mask(sb + 5)) = CharA

(***************************************************************************)
(* calculate_sentence_length.  A usize is modelled by the integer it       *)
(* denotes when no operation wrapped; a wrapped (release build) value x is *)
(* modelled by its two's-complement reading x - 2^w, which is negative, so *)
(* the model never forms 2^w itself.                                       *)
(***************************************************************************)
\* usize - usize, on non-wrapped operands
SubUsize(a, b) == [v |-> a - b, ovf |-> a < b]
\* usize + usize, where at most one operand has wrapped
AddUsize(a, b) == [v |-> a + b, ovf |-> (a < 0 \/ b < 0) /\ a + b >= 0]

\* Two slips of the branch: the wrapped case forgotten, and <= for <.
calculate_sentence_length_no_wrap_branch(n, sb, checks) ==
    LET s1 == SubUsize(Cap, n)
        s2 == SubUsize(s1.v, sb)
    IN  [ret |-> IF checks /\ (s1.ovf \/ s2.ovf) THEN "panic" ELSE "ok",
         len |-> s2.v, underflow |-> s1.ovf \/ s2.ovf]
calculate_sentence_length_le(n, sb, checks) ==
    IF sb + n <= Cap
    THEN calculate_sentence_length_no_wrap_branch(n, sb, checks)
    ELSE LET a == SubUsize(Cap, sb)
             b == SubUsize(Cap, n)
             s == AddUsize(a.v, b.v)
         IN  [ret |-> IF checks /\ (a.ovf \/ b.ovf \/ s.ovf) THEN "panic" ELSE "ok",
              len |-> s.v, underflow |-> a.ovf \/ b.ovf]
calculate_sentence_length(n, sb, checks) ==
    IF sb + n < Cap
    THEN LET s1 == SubUsize(Cap, n)
             s2 == SubUsize(s1.v, sb)
         IN  [ret |-> IF checks /\ (s1.ovf \/ s2.ovf) THEN "panic" ELSE "ok",
              len |-> s2.v, underflow |-> s1.ovf \/ s2.ovf]
    ELSE LET a == SubUsize(Cap, sb)
             b == SubUsize(Cap, n)
             s == AddUsize(a.v, b.v)
         IN  [ret |-> IF checks /\ (a.ovf \/ b.ovf \/ s.ovf) THEN "panic" ELSE "ok",
              len |-> s.v, underflow |-> a.ovf \/ b.ovf]

(***************************************************************************)
(* extract_gga                                                             *)
(***************************************************************************)
\* The cursor increments after each latitude digit (the fourth skips the
\* decimal point, the last leaves the field), and after each longitude digit.
\* (LatSkipsNoPoint: a slip, the decimal point not skipped.)
LatSkipsNoPoint == <<1, 1, 1, 1, 1, 1, 1, 1, 2>>
LatSkips == <<1, 1, 1, 2, 1, 1, 1, 1, 2>>
LonSkips == <<1, 1, 1, 1, 2, 1, 1, 1, 1, 2>>

\* acc += ((buffer[i] - b'0') as u32) * POW10_10_DIGITS[k-1]; i = (i + skip) & 1023,
\* for the digits k .. Len(skips).  acc is [hi, lo, ovf, i].
RECURSIVE parse_digits(_, _, _, _)
parse_digits(buf, skips, k, acc) ==
    IF k > Len(skips) THEN acc
    ELSE LET d == Sub8(get_unchecked(buf, acc.i), Char0)
             t == Mul32(d.v, POW10_10_DIGITS[k])
             s == Add32(acc, t)
         IN  parse_digits(buf, skips, k + 1,
                 [hi |-> s.hi, lo |-> s.lo,
                  ovf |-> acc.ovf \/ d.ovf \/ t.ovf \/ s.ovf,
                  i |-> Mask(acc.i + skips[k])])

\* A slip: the shift forgotten.
lat_hemisphere_unshifted(b) == IF b = CharN THEN 1 ELSE 0
\* ((byte == b'N') as u8) << 1
lat_hemisphere(b) == IF b = CharN THEN 2 ELSE 0
\* (byte == b'E') as u8
lon_hemisphere(b) == IF b = CharE THEN 1 ELSE 0
\* x | bit, for bit in {0, 1}
OrBit0(x, bit) == IF x % 2 = 1 THEN x ELSE x + bit

\* The HDOP block: [v, ovf], the byte stored and whether a +, - or * overflowed.
parse_hdop(buf, i) ==
    IF get_unchecked(buf, Mask(i + 1)) = Dot
    THEN \* Integer part is single digit
         LET d0 == Sub8(get_unchecked(buf, i), Char0)
             m0 == Mul8(d0.v, 10)
             h1 == Add8(0, m0.v)
             d1 == Sub8(get_unchecked(buf, Mask(i + 2)), Char0)
             h2 == Add8(h1.v, d1.v)
         IN  [v |-> h2.v, ovf |-> d0.ovf \/ m0.ovf \/ h1.ovf \/ d1.ovf \/ h2.ovf]
    ELSE \* Integer part is double digit
         LET d0 == Sub8(get_unchecked(buf, i), Char0)
             h1 == saturating_add(0, saturating_mul(d0.v, 100))
             i1 == Mask(i + 1)
             d1 == Sub8(get_unchecked(buf, i1), Char0)
             m1 == Mul8(d1.v, 10)
             h2 == saturating_add(h1, m1.v)
             d2 == Sub8(get_unchecked(buf, Mask(i1 + 2)), Char0)
             h3 == saturating_add(h2, d2.v)
         IN  [v |-> h3, ovf |-> d0.ovf \/ d1.ovf \/ m1.ovf \/ d2.ovf]

\* A slip: the block zeroed on a no-fix return.
no_fix_zeroed(pb) == [parsed |-> "false", position_block |-> [k \in 0..9 |-> 0]]
\* `return false` of the two no-fix checks
no_fix(pb) == [parsed |-> "false", position_block |-> pb]

\* extract_gga(buffer, sentence_begin, position_block) in a build with or without
\* overflow checks: [parsed, position_block], the outcome and the block it leaves.
extract_gga(buf, sb, pb, checks) ==
    LET i0 == Mask(sb + 7)
        i1 == Mask(i0 + TIME_FIELD_SKIP)
        lat == parse_digits(buf, LatSkips, 1, [hi |-> 0, lo |-> 0, ovf |-> FALSE, i |-> i1])
        latb == BigEndian(lat)
        pb1 == [pb EXCEPT ![0] = latb[1], ![1] = latb[2], ![2] = latb[3], ![3] = latb[4],
                          ![8] = lat_hemisphere(get_unchecked(buf, lat.i))]
        i2 == Mask(lat.i + 2)
        lon == parse_digits(buf, LonSkips, 1, [hi |-> 0, lo |-> 0, ovf |-> FALSE, i |-> i2])
        lonb == BigEndian(lon)
        pb2 == [pb1 EXCEPT ![4] = lonb[1], ![5] = lonb[2], ![6] = lonb[3], ![7] = lonb[4],
                           ![8] = OrBit0(@, lon_hemisphere(get_unchecked(buf, lon.i)))]
        i3 == Mask(lon.i + 7)
        hd == parse_hdop(buf, i3)
        pb3 == [pb2 EXCEPT ![9] = hd.v]
    IN  IF get_unchecked(buf, i0) = Comma THEN no_fix(pb)
        ELSE IF get_unchecked(buf, i1) = Comma THEN no_fix(pb)
        ELSE IF checks /\ lat.ovf THEN [parsed |-> "panic", position_block |-> pb]
        ELSE IF checks /\ lon.ovf THEN [parsed |-> "panic", position_block |-> pb1]
        ELSE IF checks /\ hd.ovf THEN [parsed |-> "panic", position_block |-> pb2]
        ELSE [parsed |-> "true", position_block |-> pb3]

(***************************************************************************)
(* The ingestion path and the sentences it delivers.                       *)
(***************************************************************************)
\* tests::shift_buffer: the sentence written at d, wrapping modulo 1024.
shift_buffer(buf, sentence, d) ==
    IF d + Len(sentence) <= Cap
    THEN SubSeq(buf, 1, d) \o sentence \o SubSeq(buf, d + Len(sentence) + 1, Cap)
    ELSE SubSeq(sentence, Cap - d + 1, Len(sentence))
         \o SubSeq(buf, d + Len(sentence) - Cap + 1, d)
         \o SubSeq(sentence, 1, Cap - d)

GGA_NO_TIME_NO_FIX ==
    <<36, 71, 78, 71, 71, 65, 44, 44, 44, 44, 44, 44, 48, 44, 48, 48, 44, 50, 53,
      46, 53, 44, 44, 44, 44, 44, 44, 42, 54, 52, 13, 10>>
GGA_WITH_TIME_NO_FIX ==
    <<36, 71, 78, 71, 71, 65, 44, 48, 53, 49, 49, 53, 52, 46, 48, 48, 48, 44, 44,
      44, 44, 44, 48, 44, 48, 48, 44, 50, 53, 46, 53, 44, 44, 44, 44, 44, 44, 42,
      55, 69, 13, 10>>
\* GGA_WITH_TIME_WITH_FIX: <<sentence, expected position block>>
GGA_WITH_TIME_WITH_FIX == <<
    << <<36, 71, 78, 71, 71, 65, 44, 48, 53, 49, 50, 48, 48, 46, 57, 57, 51, 44,
         50, 55, 51, 52, 46, 50, 49, 57, 55, 51, 44, 83, 44, 49, 53, 51, 48, 51,
         46, 48, 56, 57, 50, 55, 44, 69, 44, 49, 44, 48, 55, 44, 50, 46, 56, 44,
         49, 48, 51, 46, 52, 44, 77, 44, 52, 49, 46, 49, 44, 77, 44, 44, 42, 53,
         57, 13, 10>>,
       <<162, 248, 225, 210, 91, 54, 169, 63, 1, 28>> >>,
    << <<36, 71, 78, 71, 71, 65, 44, 48, 53, 49, 51, 51, 55, 46, 48, 48, 48, 44,
         50, 55, 51, 52, 46, 50, 50, 56, 49, 53, 44, 83, 44, 49, 53, 51, 48, 51,
         46, 48, 57, 49, 55, 52, 44, 69, 44, 49, 44, 49, 53, 44, 48, 46, 57, 44,
         56, 52, 46, 54, 44, 77, 44, 52, 49, 46, 49, 44, 77, 44, 44, 42, 54, 69,
         13, 10>>,
       <<162, 249, 2, 182, 91, 54, 170, 54, 1, 9>> >>,
    << <<36, 71, 80, 71, 71, 65, 44, 49, 56, 49, 53, 48, 49, 46, 48, 48, 48, 44,
         51, 57, 52, 52, 46, 53, 48, 48, 56, 54, 44, 78, 44, 49, 48, 52, 53, 57,
         46, 49, 54, 54, 53, 52, 44, 87, 44, 49, 44, 48, 51, 44, 50, 46, 49, 48,
         44, 56, 52, 46, 54, 44, 77, 44, 52, 49, 46, 49, 44, 77, 44, 44, 42, 54,
         69, 13, 10>>,
       <<235, 28, 78, 124, 62, 87, 107, 238, 2, 21>> >>,
    << <<36, 71, 80, 71, 71, 65, 44, 49, 56, 49, 53, 48, 49, 46, 48, 48, 48, 44,
         51, 57, 52, 52, 46, 53, 48, 48, 56, 54, 44, 78, 44, 48, 48, 52, 53, 57,
         46, 49, 54, 54, 53, 52, 44, 69, 44, 49, 44, 48, 51, 44, 57, 46, 53, 48,
         44, 56, 52, 46, 54, 44, 77, 44, 52, 49, 46, 49, 44, 77, 44, 44, 42, 54,
         69, 13, 10>>,
       <<235, 28, 78, 124, 2, 188, 161, 238, 3, 95>> >>,
    << <<36, 71, 78, 71, 71, 65, 44, 49, 56, 49, 53, 48, 49, 46, 48, 48, 48, 44,
         51, 54, 49, 53, 46, 49, 50, 48, 49, 50, 44, 83, 44, 48, 54, 51, 53, 55,
         46, 50, 53, 49, 53, 56, 44, 87, 44, 49, 44, 48, 51, 44, 51, 57, 46, 57,
         44, 56, 52, 46, 54, 44, 77, 44, 52, 49, 46, 49, 44, 77, 44, 44, 42, 54,
         69, 13, 10>>,
       <<215, 122, 90, 248, 37, 228, 101, 102, 0, 255>> >> >>

\* The characters of a sequence of decimal digits.
Chars(ds) == [k \in 1..Len(ds) |-> ds[k] + Char0]

\* A sentence in the layout of the first GGA_WITH_TIME_WITH_FIX entry,
\* $GNGGA,051200.993,DDMM.MMMMM,h,DDDMM.MMMMM,h,1,07,HDOP,103.4,M,41.1,M,,*59\r\n,
\* with the given talker letters, latitude digits (9), hemisphere bytes,
\* longitude digits (10) and HDOP characters.
Sentence(t1, t2, lat, ns, lon, ew, hdop) ==
    <<36, t1, t2, CharG, CharG, CharA>>
    \o SubSeq(GGA_WITH_TIME_WITH_FIX[1][1], 7, 18)
    \o Chars(SubSeq(lat, 1, 4)) \o <<Dot>> \o Chars(SubSeq(lat, 5, 9))
    \o <<Comma, ns, Comma>>
    \o Chars(SubSeq(lon, 1, 5)) \o <<Dot>> \o Chars(SubSeq(lon, 6, 10))
    \o <<Comma, ew>>
    \o SubSeq(GGA_WITH_TIME_WITH_FIX[1][1], 45, 50)
    \o hdop
    \o SubSeq(GGA_WITH_TIME_WITH_FIX[1][1], 54, 75)

\* The fields of the first GGA_WITH_TIME_WITH_FIX entry.
RefLat == <<2, 7, 3, 4, 2, 1, 9, 7, 3>>
RefLon == <<1, 5, 3, 0, 3, 0, 8, 9, 2, 7>>
RefHdop == <<50, Dot, 56>>
CharS == 83
CharW == 87

\* The buffer before the sentence arrives: one byte throughout.
ZeroBuffer == [j \in 1..Cap |-> 0]
CommaBuffer == [j \in 1..Cap |-> Comma]
\* What the caller's record may hold before a call.
PriorBlocks == {[k \in 0..9 |-> 0], [k \in 0..9 |-> U8Max - k]}

Idle ==
    /\ parsed = "none"
    /\ gga = "none"
    /\ ndtr = Cap
    /\ actual_sentence_length = 0
    /\ sentence_length = [ret |-> "none", len |-> 0, underflow |-> FALSE]

\* The buffer holds sentence s at offset r over the buffer f, the record holds pb.
Loaded(s, r, f, pb) ==
    /\ buffer = shift_buffer(f, s, r)
    /\ dest = r
    /\ sentence_begin = r
    /\ position_block = pb
    /\ Idle

(***************************************************************************)
(* Operations.                                                             *)
(***************************************************************************)
\* let parsed = extract_gga(&buffer, i, &mut position_block)
Extract ==
    /\ parsed = "none"
    /\ \E checks \in BOOLEAN :
         LET r == extract_gga(buffer, dest, position_block, checks)
         IN  /\ parsed' = r.parsed
             /\ position_block' = r.position_block
    /\ sentence_begin' = dest
    /\ UNCHANGED <<buffer, dest, gga, ndtr, actual_sentence_length, sentence_length>>

(***************************************************************************)
(* Spec: the test sentences, and a fix north of 43 degrees, at every       *)
(* rotation of the buffer.                                                 *)
(***************************************************************************)
HighLatitude ==
    Sentence(CharG, CharN, <<4, 5, 0, 0, 0, 0, 0, 0, 0>>, CharN, RefLon, CharE, RefHdop)
RotationSentences ==
    {GGA_NO_TIME_NO_FIX, GGA_WITH_TIME_NO_FIX, HighLatitude}
    \cup {GGA_WITH_TIME_WITH_FIX[k][1] : k \in 1..5}
RotationFills == {ZeroBuffer, CommaBuffer}

Init ==
    \E s \in RotationSentences, r \in 0..(Cap - 1), f \in RotationFills,
       pb \in PriorBlocks : Loaded(s, r, f, pb)
Next == Extract
Spec == Init /\ [][Next]_vars

(***************************************************************************)
(* The sentence as the last call saw it.                                   *)
(***************************************************************************)
\* The byte k places after the sentence cursor.
At(k) == get_unchecked(buffer, Mask(sentence_begin + k))
ZeroBlock == [k \in 0..9 |-> 0]
TimeEmpty == At(7) = Comma
LatEmpty == At(7) # Comma /\ At(7 + TIME_FIELD_SKIP) = Comma
FixBearing == At(7) # Comma /\ At(7 + TIME_FIELD_SKIP) # Comma
\* extract_gga has been called (Extract is the only action that sets parsed).
Called == parsed # "none"

\* C1: when the time field is empty, or the time field is not but the latitude
\* field is, extract_gga returns false and leaves all 10 bytes of
\* position_block as they were before the call.
C1_NoFixLeavesBlockUntouched ==
    [][(parsed = "none" /\ parsed' # "none" /\ (TimeEmpty' \/ LatEmpty'))
          => (parsed' = "false" /\ position_block' = position_block)]_vars
\* A no-fix call on a sentence with a time but no latitude, whose latitude
\* check wraps past the end of the buffer, on a block that was not zero.
C1_Witness ==
    /\ parsed = "false"
    /\ LatEmpty
    /\ sentence_begin + 18 >= Cap
    /\ position_block[0] = U8Max

\* The block extract_gga writes for the same bytes at rotation 0, over a zero
\* buffer, into a zero block, in a wrapping build.
CanonicalRecord ==
    LET n == Len(GGA_WITH_TIME_WITH_FIX[1][1])
        rotated == SubSeq(buffer, sentence_begin + 1, Cap) \o SubSeq(buffer, 1, sentence_begin)
    IN  extract_gga(shift_buffer(ZeroBuffer, SubSeq(rotated, 1, n), 0), 0, ZeroBlock, FALSE).position_block
\* The sentence at the cursor is the k-th test sentence.
IsTestSentence(k) ==
    \A j \in 1..Len(GGA_WITH_TIME_WITH_FIX[k][1]) : At(j - 1) = GGA_WITH_TIME_WITH_FIX[k][1][j]

\* C2: for every well-formed fix-bearing sentence at every rotation, extract_gga
\* returns true and writes a record that depends only on the sentence bytes;
\* for the test sentences it is the record the tests expect.
C2_RotationInvariance ==
    (Called /\ FixBearing) =>
        /\ parsed = "true"
        /\ position_block = CanonicalRecord
        /\ \A k \in 1..5 : IsTestSentence(k) =>
               position_block = [j \in 0..9 |-> GGA_WITH_TIME_WITH_FIX[k][2][j + 1]]
\* tests::test_with_time_with_fix: the same statement for the test sentences alone.
ModelPassesExtractTests == (\E k \in 1..5 : IsTestSentence(k)) => C2_RotationInvariance

(***************************************************************************)
(* SpecClassify: is_gga at the sentence cursor and one byte to either side *)
(* of it, for talker ids and surrounding bytes made of the letters it      *)
(* looks for.                                                              *)
(***************************************************************************)
GBuffer == [j \in 1..Cap |-> CharG]
ABuffer == [j \in 1..Cap |-> CharA]
TalkerLetters == {CharG, CharA, CharN}
ClassifySentences ==
    {Sentence(t1, t2, RefLat, CharS, RefLon, CharE, RefHdop) :
        t1 \in TalkerLetters, t2 \in TalkerLetters}
\* The bare prefix $ttGGA: the byte after it is whatever the buffer held.
ClassifyPrefixes == {SubSeq(s, 1, 6) : s \in {GGA_WITH_TIME_WITH_FIX[k][1] : k \in {1, 3}}}
ClassifyFills == {ZeroBuffer, GBuffer, ABuffer}

\* is_gga(&buffer, sb) for sb in i - 1, i, i + 1 (tests::test_is_gga)
IsGga ==
    /\ gga = "none"
    /\ \E sb \in {Mask(dest + Cap - 1), dest, Mask(dest + 1)} :
         /\ sentence_begin' = sb
         /\ gga' = IF is_gga(buffer, sb) THEN "true" ELSE "false"
    /\ UNCHANGED <<buffer, dest, position_block, parsed, ndtr,
                   actual_sentence_length, sentence_length>>

InitClassify ==
    \E s \in ClassifySentences \cup ClassifyPrefixes, r \in 0..(Cap - 1),
       f \in ClassifyFills : Loaded(s, r, f, ZeroBlock)
NextClassify == IsGga
SpecClassify == InitClassify /\ [][NextClassify]_vars

\* C3: with a sentence beginning $ttGGA written at r, is_gga is true at r and
\* false at r - 1 and r + 1 (mod 1024), whatever the other bytes are, and it is
\* true exactly when the bytes 3, 4 and 5 places after its cursor are G, G, A.
C3_ClassifierRotationInvariance ==
    gga # "none" =>
        /\ gga = "true" <=> sentence_begin = dest
        /\ gga = "true" <=> (At(3) = CharG /\ At(4) = CharG /\ At(5) = CharA)
\* is_gga answered true at a cursor whose three reads wrap past the buffer's
\* end, in a buffer otherwise full of 'G'.
C3_Witness ==
    /\ gga = "true"
    /\ sentence_begin = Cap - 4
    /\ get_unchecked(buffer, Cap - 5) = CharG
\* is_gga answered false one byte after such a cursor.
C3_WitnessFalse ==
    /\ gga = "false"
    /\ dest = Cap - 4
    /\ sentence_begin = Cap - 3

(***************************************************************************)
(* Where the fields sit, counted from the sentence cursor.                 *)
(***************************************************************************)
TimeAt == 7
LatAt == TimeAt + TIME_FIELD_SKIP
NsAt == LatAt + 11
LonAt == NsAt + 2
EwAt == LonAt + 12
HdopAt == EwAt + 7

\* Rotations that put the buffer's end 0..back bytes into the part of the
\* sentence starting at `first`, and the rotation that does not wrap at all.
FieldDests(first, back) == {0} \cup {Mask(Cap - first - j) : j \in 0..back}

\* The k-th latitude digit (1..9) and the k-th longitude digit (1..10) as
\* the sentence gives them: the character less '0'.
LatDigit(k) == At(LatAt + (k - 1) + (IF k > 4 THEN 1 ELSE 0)) - Char0
LonDigit(k) == At(LonAt + (k - 1) + (IF k > 5 THEN 1 ELSE 0)) - Char0
LatWellFormed == \A k \in 1..9 : LatDigit(k) \in 0..9
\* DDMM.MMMMM read as the 9-digit integer DDMMMMMMM (at most 999999999).
RECURSIVE LatInteger(_)
LatInteger(k) == IF k = 0 THEN 0 ELSE 10 * LatInteger(k - 1) + LatDigit(k)
\* The big-endian bytes of a non-negative integer below 2^31.
BytesOf(n) == <<n \div 2^24, (n \div 2^16) % 256, (n \div 2^8) % 256, n % 256>>
\* The big-endian bytes of (10 * n) mod 2^32, for 0 <= n < 2^31.
BytesOfTenTimes(n) ==
    LET lo == 10 * (n % 2^16)
        hi == 10 * (n \div 2^16) + lo \div 2^16
    IN  <<(hi % 2^16) \div 256, hi % 256, (lo % 2^16) \div 256, lo % 256>>
LatBytes == <<position_block[0], position_block[1], position_block[2], position_block[3]>>

(***************************************************************************)
(* SpecLatitude: latitude fields that differ from the first test           *)
(* sentence's in one digit, and the extremes, at rotations that wrap       *)
(* inside the field.                                                       *)
(***************************************************************************)
LatBack == 10
LatVariants ==
    {[RefLat EXCEPT ![k] = d] : k \in 1..9, d \in 0..9}
    \cup {<<0, 0, 0, 0, 0, 0, 0, 0, 0>>, <<9, 9, 9, 9, 9, 9, 9, 9, 9>>,
          <<4, 2, 9, 4, 9, 6, 7, 2, 9>>, <<4, 2, 9, 4, 9, 6, 7, 3, 0>>,
          <<4, 3, 0, 0, 0, 0, 0, 0, 0>>, <<8, 9, 5, 9, 9, 9, 9, 9, 9>>,
          <<9, 0, 0, 0, 0, 0, 0, 0, 0>>}
LatSentences == {Sentence(CharG, CharN, lat, CharN, RefLon, CharE, RefHdop) : lat \in LatVariants}

InitLatitude ==
    \E s \in LatSentences, r \in FieldDests(LatAt, LatBack), pb \in PriorBlocks :
        Loaded(s, r, ZeroBuffer, pb)
NextLatitude == Extract
SpecLatitude == InitLatitude /\ [][NextLatitude]_vars

\* C6 as stated: when extract_gga returns true, bytes 0..3 hold, big-endian, the
\* 9 latitude digits as one integer, the sum of digit_k * 10^(8-k).
C6_LatitudeWeightsFromTenToTheEighth ==
    (parsed = "true" /\ LatWellFormed) => LatBytes = BytesOf(LatInteger(9))
\* C6 as amended: when extract_gga returns true, bytes 0..3 hold, big-endian, ten
\* times that integer (the digits weighted 10^9 .. 10^1), reduced modulo 2^32.
C6_LatitudeWeightsFromTenToTheNinth ==
    (parsed = "true" /\ LatWellFormed) => LatBytes = BytesOfTenTimes(LatInteger(9))
\* The first test sentence's latitude, 2734.21973, decoded to 2734219730 with
\* the buffer's end between its digits.
C6_Witness ==
    /\ parsed = "true"
    /\ LatInteger(9) = 273421973
    /\ LatBytes = <<162, 248, 225, 210>>
    /\ sentence_begin = Cap - LatAt - 5

\* A valid latitude: well formed, with DD in 00..90.
LatValid == LatWellFormed /\ 10 * LatDigit(1) + LatDigit(2) <= 90
\* The u32 accumulator lat over the sentence at the cursor.
LatAccumulator ==
    parse_digits(buffer, LatSkips, 1,
                 [hi |-> 0, lo |-> 0, ovf |-> FALSE, i |-> Mask(sentence_begin + LatAt)])
\* C10: for a valid latitude no step of the latitude accumulation leaves the
\* u32 range: the call does not panic, and nothing wrapped.
C10_LatitudeNeverOverflows ==
    (Called /\ LatValid) => (parsed = "true" /\ ~LatAccumulator.ovf)

(***************************************************************************)
(* SpecHemisphere: every pair of hemisphere bytes from the four letters    *)
(* and two bytes that are none of them.                                    *)
(***************************************************************************)
HemiBack == 15
CharLowerN == CharN + 32
HemisphereBytes == {CharN, CharS, CharE, CharW, CharLowerN, Comma}
HemisphereSentences ==
    {Sentence(CharG, CharN, RefLat, ns, RefLon, ew, RefHdop) :
        ns \in HemisphereBytes, ew \in HemisphereBytes}

InitHemisphere ==
    \E s \in HemisphereSentences, r \in FieldDests(NsAt, HemiBack), pb \in PriorBlocks :
        Loaded(s, r, ZeroBuffer, pb)
NextHemisphere == Extract
SpecHemisphere == InitHemisphere /\ [][NextHemisphere]_vars

\* C8: when extract_gga returns true, byte 8 is 2 if the latitude hemisphere
\* byte is 'N' (else 0) plus 1 if the longitude hemisphere byte is 'E' (else 0),
\* whatever byte 8 held before; bits 2..7 are 0.
C8_HemisphereBits ==
    parsed = "true" =>
        /\ position_block[8] = (IF At(NsAt) = CharN THEN 2 ELSE 0)
                               + (IF At(EwAt) = CharE THEN 1 ELSE 0)
        /\ position_block[8] \in 0..3
\* North and east decoded to 3, with the buffer's end between the two
\* hemisphere bytes.
C8_Witness ==
    /\ parsed = "true"
    /\ At(NsAt) = CharN
    /\ At(EwAt) = CharE
    /\ position_block[8] = 3
    /\ sentence_begin = Cap - LonAt
\* 'E' as the latitude hemisphere and 'N' as the longitude hemisphere set no bit.
C8_WitnessSwapped ==
    /\ parsed = "true"
    /\ At(NsAt) = CharE
    /\ At(EwAt) = CharN
    /\ position_block[8] = 0

(***************************************************************************)
(* SpecHdop: every HDOP D.D and DD.D.                                      *)
(***************************************************************************)
HdopBack == 4
HdopFields ==
    {<<d + Char0, Dot, f + Char0>> : d \in 0..9, f \in 0..9}
    \cup {<<a + Char0, b + Char0, Dot, f + Char0>> : a \in 0..9, b \in 0..9, f \in 0..9}
HdopSentences ==
    {Sentence(CharG, CharN, RefLat, CharS, RefLon, CharE, h) : h \in HdopFields}

InitHdop ==
    \E s \in HdopSentences, r \in FieldDests(HdopAt, HdopBack), pb \in PriorBlocks :
        Loaded(s, r, ZeroBuffer, pb)
NextHdop == Extract
SpecHdop == InitHdop /\ [][NextHdop]_vars

\* The HDOP field's shape and digits as the sentence gives them.
HdopSingle ==
    /\ At(HdopAt + 1) = Dot
    /\ At(HdopAt) - Char0 \in 0..9
    /\ At(HdopAt + 2) - Char0 \in 0..9
HdopDouble ==
    /\ At(HdopAt + 2) = Dot
    /\ At(HdopAt) - Char0 \in 0..9
    /\ At(HdopAt + 1) - Char0 \in 0..9
    /\ At(HdopAt + 3) - Char0 \in 0..9
\* integer_part * 10 + first_fractional_digit
HdopTenths ==
    IF HdopSingle
    THEN (At(HdopAt) - Char0) * 10 + (At(HdopAt + 2) - Char0)
    ELSE ((At(HdopAt) - Char0) * 10 + (At(HdopAt + 1) - Char0)) * 10 + (At(HdopAt + 3) - Char0)

\* C7: for an HDOP D.D or DD.D, extract_gga stores min(255, integer part * 10 +
\* first fractional digit) in byte 9, and no 8-bit operation on the way
\* overflows (the call does not panic over it).
C7_HdopSaturatedTenths ==
    (Called /\ FixBearing /\ (HdopSingle \/ HdopDouble)) =>
        /\ parsed = "true"
        /\ position_block[9] = IF HdopTenths > U8Max THEN U8Max ELSE HdopTenths
\* HDOP 39.9 stored as 255, with the buffer's end inside the field.
C7_Witness ==
    /\ parsed = "true"
    /\ HdopDouble
    /\ HdopTenths = 399
    /\ position_block[9] = U8Max
    /\ sentence_begin = Cap - HdopAt - 2

(***************************************************************************)
(* SpecRoundTrip: tests::test_calculate_sentence_length, the ingestion     *)
(* path writing sentence after sentence.  No buffer content is involved.   *)
(***************************************************************************)
MaxSentenceLength == 82
NoBuffer == <<>>
LengthIdle ==
    /\ buffer = NoBuffer
    /\ dest = 0
    /\ position_block = ZeroBlock
    /\ parsed = "none"
    /\ gga = "none"
    /\ actual_sentence_length = 0
    /\ sentence_length = [ret |-> "none", len |-> 0, underflow |-> FALSE]

\* u16::wrapping_sub
wrapping_sub(a, b) == (a - b) % (U16Max + 1)

\* One turn of the test's loop: a sentence of some length arrives, the counter
\* drops by it, the length is computed and the cursor advanced by it.  The
\* test profile has overflow checks, so an underflow would show as a panic.
TestStep ==
    \E len \in 1..MaxSentenceLength :
        LET n == Mask(wrapping_sub(ndtr, len))
            r == calculate_sentence_length(n, sentence_begin, TRUE)
        IN  /\ actual_sentence_length' = len
            /\ ndtr' = n
            /\ sentence_length' = r
            /\ sentence_begin' = IF r.ret = "ok" THEN Mask(sentence_begin + r.len)
                                 ELSE sentence_begin
            /\ UNCHANGED <<buffer, dest, position_block, parsed, gga>>

InitRoundTrip == LengthIdle /\ ndtr = Cap /\ sentence_begin = 0
NextRoundTrip == TestStep
SpecRoundTrip == InitRoundTrip /\ [][NextRoundTrip]_vars

\* C4: at every step of such a run the computed length is the length written.
C4_LengthRoundTrip ==
    sentence_length.ret # "none" =>
        /\ sentence_length.ret = "ok"
        /\ ~sentence_length.underflow
        /\ sentence_length.len = actual_sentence_length
\* A step after which the cursor has wrapped past the end of the buffer: the
\* sentence began in the last bytes and ended in the first.
C4_Witness ==
    /\ sentence_length.ret = "ok"
    /\ sentence_length.len = actual_sentence_length
    /\ sentence_begin > 0
    /\ sentence_begin < actual_sentence_length

(***************************************************************************)
(* SpecLength: calculate_sentence_length on every cursor, and every        *)
(* counter up to a little past the capacity and the largest u16.           *)
(***************************************************************************)
MaxOver == 2
NdtrInputs == 0..(Cap + MaxOver) \cup {U16Max}

\* let sentence_length = calculate_sentence_length(ndtr, sentence_begin)
Calculate ==
    /\ sentence_length.ret = "none"
    /\ \E checks \in BOOLEAN :
         sentence_length' = calculate_sentence_length(ndtr, sentence_begin, checks)
    /\ UNCHANGED <<buffer, dest, sentence_begin, position_block, parsed, gga, ndtr,
                   actual_sentence_length>>

InitLength ==
    /\ LengthIdle
    /\ ndtr \in NdtrInputs
    /\ sentence_begin \in 0..(Cap - 1)
NextLength == Calculate
SpecLength == InitLength /\ [][NextLength]_vars

\* calculate_sentence_length has been called with a counter within the capacity.
InCapacity == sentence_length.ret # "none" /\ ndtr <= Cap
\* C5 as stated: for every u16 counter and every cursor no subtraction of
\* calculate_sentence_length underflows: no panic, no wrapped value.
C5_NoUnderflow ==
    sentence_length.ret # "none" =>
        (sentence_length.ret = "ok" /\ ~sentence_length.underflow)
\* C5 as amended: for every counter in 0..1024 and every cursor no subtraction
\* of calculate_sentence_length underflows.
C5_NoUnderflowWithinCapacity ==
    InCapacity => (sentence_length.ret = "ok" /\ ~sentence_length.underflow)
\* The second branch at its edge: the counter at the capacity (1024 - ndtr = 0)
\* and the cursor on the last byte (1024 - sentence_begin = 1).
C5_Witness ==
    /\ sentence_length.ret = "ok"
    /\ ndtr = Cap
    /\ sentence_begin = Cap - 1
    /\ sentence_length.len = 1

\* The write cursor, (1024 - remaining_transfer_count) mod 1024.
WriteCursor == Mask(Cap - ndtr)
\* C9 as stated: the result is the forward distance (w - sentence_begin) mod 1024
\* from the cursor to the write cursor w, also when w = sentence_begin.
C9_ForwardDistance ==
    InCapacity =>
        /\ sentence_length.ret = "ok"
        /\ Mask(sentence_begin + sentence_length.len) = WriteCursor
        /\ sentence_length.len = Mask(WriteCursor - sentence_begin + Cap)
\* C9 as amended: the result is in 1..1024 and leads from the cursor to the
\* write cursor; it is the forward distance when w # sentence_begin and a whole
\* lap, 1024, when w = sentence_begin.
C9_ForwardDistanceOrLap ==
    InCapacity =>
        /\ sentence_length.ret = "ok"
        /\ sentence_length.len \in 1..Cap
        /\ Mask(sentence_begin + sentence_length.len) = WriteCursor
        /\ WriteCursor # sentence_begin =>
               sentence_length.len = Mask(WriteCursor - sentence_begin + Cap)
        /\ WriteCursor = sentence_begin => sentence_length.len = Cap
\* The write cursor on the sentence cursor, in the middle of the buffer: 1024.
C9_Witness ==
    /\ sentence_length.ret = "ok"
    /\ ndtr <= Cap
    /\ sentence_begin > 0
    /\ WriteCursor = sentence_begin
    /\ sentence_length.len = Cap

====
